---- MODULE Spec2Model ----
(***************************************************************************)
(* The peer-to-peer server of network/src/server: the connection acceptor  *)
(* of Server::listen, the per-connection reader tasks of                   *)
(* Server::spawn_connection_thread and the central Server::message_handler *)
(* with the handlers it dispatches to.                                     *)
(*                                                                         *)
(* The peer book and the connection table live outside server.rs and       *)
(* message_handler.rs; their operations are modelled from the written      *)
(* specification and are marked so where they are defined. The handshake   *)
(* and ping registries live outside too: what they answer (a handshake or  *)
(* a verack accepted or refused, a pong accepted or refused) is an input   *)
(* of the step that asks them.                                             *)
(***************************************************************************)
EXTENDS Integers, Sequences, FiniteSets, TLC

\* Socket addresses are 1..NumAddrs; address 1 is the node's configured one.
NumAddrs == 3
\* Frames are numbered modulo SeqMod, by the reader that read them.
SeqMod == 2
\* Longest bootnode list of the configuration.
MaxBootnodes == 2
\* Context::max_peers, the configured peer cap.
max_peers == 1
\* should_disconnect: the failure count at which a reader gives up.
FailureLimit == 10
\* Height of the longest chain a peer holds or advertises.
MaxHeight == 3
\* receive_get_sync: the most hashes one Sync carries.
SyncCap == 4000
\* How far from 0 and from SyncCap the heights of a getsync exchange lie.
Slack == 1

Addr == 1..NumAddrs

\* Two consecutive addresses are two ports of one host (SocketAddr::ip).
IpOf(a) == (a + 1) \div 2

VARIABLES
    local_address,  \* Context::local_address
    peer_book,      \* Context::peer_book: connected, gossiped, disconnected
    connections,    \* Context::connections: addresses with a stored channel
    sync_state,     \* SyncHandler::sync_state
    sync_node,      \* SyncHandler::sync_node (a set of at most one address)
    pending_hashes, \* SyncHandler: the hashes still to be fetched, in order
    latest_block_height, \* the height of the chain in storage; the block
                    \* at height h has hash h
    stream,         \* per remote address, the inbound TCP stream's fate
    acceptor,       \* the acceptor task of listen: where it is, the peer
                    \* in hand, the version that peer sent (<<>> or
                    \* <<height>>) and whether GetSync was written to it
    readers,        \* per channel address, the reader task's locals
    queue,          \* the mpsc queue from the readers to the handler
    ack,            \* per reader, the state of its one-shot acknowledgement
    main,           \* where listen's own task is: start-up steps, handler
    handled,        \* per reader, the number of its tuples dispatched so
                    \* far, modulo SeqMod
    handshakes,     \* Context::handshakes: the addresses whose handshake is
                    \* completed, a verack from them having been accepted
    last,           \* the dispatch the handler made last, until the
                    \* reader it was for takes the acknowledgement: the
                    \* frame's name and payload, the registry's answer to
                    \* it and the messages written to channels
    requested,      \* the GetSync and GetBlock written to a peer and not
                    \* yet answered by a sync or syncblock frame from it:
                    \* <<peer, "getsync", 0>> or <<peer, "getblock", hash>>
    locking         \* per task, the lock guards it holds, the lock
                    \* operations and statements left of the function it
                    \* is in, and how its last try_lock went

vars == <<local_address, peer_book, connections, sync_state, sync_node,
          pending_hashes, latest_block_height,
          stream, acceptor, readers, queue, ack, main, handled, handshakes,
          last, requested, locking>>

\* The tasks that take the locks of the context: the acceptor spawned by
\* listen, the message handler, and the task that
\* send_handshake_non_blocking spawns.
Tasks == {"acceptor", "handler", "dialer"}

\* A task that is in none of the functions that take locks.
NoLocks == [held |-> {}, todo |-> <<>>, tried |-> "none"]

----------------------------------------------------------------------------
(* Peer book (modelled from the specification, section 4.3)                *)

\* A peer book whose update_connected leaves the other two sets as they are.
update_connected_only(book, a) ==
    [connected    |-> book.connected \cup {a},
     gossiped     |-> book.gossiped,
     disconnected |-> book.disconnected]

update_connected(book, a) ==
    [connected    |-> book.connected \cup {a},
     gossiped     |-> book.gossiped \ {a},
     disconnected |-> book.disconnected \ {a}]

update_gossiped(book, a) ==
    IF a \in book.connected
    THEN book
    ELSE [connected    |-> book.connected,
          gossiped     |-> book.gossiped \cup {a},
          disconnected |-> book.disconnected \ {a}]

disconnect_peer(book, a) ==
    [connected    |-> book.connected \ {a},
     gossiped     |-> book.gossiped \ {a},
     disconnected |-> book.disconnected \cup {a}]

forget_peer(book, a) ==
    [connected    |-> book.connected \ {a},
     gossiped     |-> book.gossiped \ {a},
     disconnected |-> book.disconnected \ {a}]

connected_contains(book, a) == a \in book.connected

connected_total(book) == Cardinality(book.connected)

----------------------------------------------------------------------------
(* Start-up of listen                                                      *)

\* The bootnode lists a configuration may hold: no address twice.
BootnodeLists ==
    {bn \in UNION {[1..n -> Addr] : n \in 0..MaxBootnodes} :
        \A i, j \in DOMAIN bn : i # j => bn[i] # bn[j]}

\* The loop of connect_bootnodes from index i on: every bootnode but the
\* first is stored as a gossiped peer.
RECURSIVE GossipBootnodes(_, _, _)
GossipBootnodes(book, bn, i) ==
    IF i > Len(bn) THEN book
    ELSE GossipBootnodes(update_gossiped(book, bn[i]), bn, i + 1)

\* connect_bootnodes, the last step of listen before the message handler
\* starts. The first bootnode is dialled unless it is this node
\* (send_handshake_non_blocking, whose spawned task writes the handshake
\* registry only); the others go to the peer book.
connect_bootnodes(bn) ==
    /\ main = "bootnodes"
    /\ peer_book' = GossipBootnodes(peer_book, bn, 2)
    /\ main' = "handler"
    /\ UNCHANGED <<local_address, connections, sync_state, pending_hashes,
                   latest_block_height, sync_node, stream, acceptor, readers,
                   queue, ack, handled, handshakes, last, requested, locking>>

\* The record kept in last. payload is what the frame carries that the
\* step looks at (<<>> if nothing); written holds <<to, message>> pairs,
\* one per successful channel.write of the step.
Dispatch(from, name, payload, accepted, written) ==
    [from |-> from, name |-> name, payload |-> payload,
     accepted |-> accepted, written |-> written]

NoDispatch == Dispatch(1, "none", <<>>, TRUE, {})

\* SyncHandler::is_syncing (modelled from the specification, section 4.6).
is_syncing == sync_state = "Syncing"

\* A version test that also takes a chain of the same height for longer.
has_chain_at_least(height, latest) == height >= latest

\* receive_version's result, the channel handed back to the reader: the
\* channel it was called with (`Ok(channel)`), whatever peer_address is.
version_channel(channel_address, peer_address) == channel_address

\* The test `height > storage.get_latest_block_height()` both version paths
\* make before adopting a sync node.
has_longer_chain(height, latest) == height > latest

----------------------------------------------------------------------------
(* The acceptor task spawned by listen                                     *)

NewReader ==
    [pc |-> "read", failure |-> FALSE, failure_count |-> 0,
     disconnect_from_peer |-> FALSE, msg |-> "none", seq |-> 0]

\* An acceptor without the cap check: every accepted stream is handshaken.
listen_accept_uncapped(a) ==
    /\ acceptor.pc = "accept"
    /\ stream[a] = "none"
    /\ stream' = [stream EXCEPT ![a] = "accepted"]
    /\ acceptor' = [pc |-> "handshake", peer |-> a,
                    version |-> <<>>, getsync |-> FALSE]
    /\ UNCHANGED <<local_address, peer_book, connections, sync_state,
                   pending_hashes, latest_block_height, sync_node, readers,
                   queue, ack, main, handled, handshakes, last, requested,
                   locking>>

\* listener.accept() hands over a stream from remote address a, and the peer
\* cap is checked: at the cap the stream is half-shut (the expect panics the
\* task when the peer has already closed the stream) and nothing else
\* happens; below the cap the inbound handshake starts.
listen_accept(a) ==
    /\ acceptor.pc = "accept"
    /\ stream[a] = "none"
    /\ IF connected_total(peer_book) >= max_peers
       THEN \E shutdown_ok \in BOOLEAN :
              /\ stream' = [stream EXCEPT
                              ![a] = IF shutdown_ok THEN "shutdown" ELSE "closed"]
              /\ acceptor' = [pc |-> IF shutdown_ok THEN "accept"
                                      ELSE "panicked",
                              peer |-> acceptor.peer,
                              version |-> <<>>, getsync |-> FALSE]
       ELSE /\ stream' = [stream EXCEPT ![a] = "accepted"]
            /\ acceptor' = [pc |-> "handshake", peer |-> a,
                            version |-> <<>>, getsync |-> FALSE]
    /\ UNCHANGED <<local_address, peer_book, connections, sync_state,
                   pending_hashes, latest_block_height, sync_node, readers,
                   queue, ack, main, handled, handshakes, last, requested,
                   locking>>

\* Handshakes::receive_any failed: the connection is dropped.
listen_handshake_failed ==
    /\ acceptor.pc = "handshake"
    /\ stream' = [stream EXCEPT ![acceptor.peer] = "closed"]
    /\ acceptor' = [acceptor EXCEPT !.pc = "accept"]
    /\ UNCHANGED <<local_address, peer_book, connections, sync_state,
                   pending_hashes, latest_block_height, sync_node, readers,
                   queue, ack, main, handled, handshakes, last, requested,
                   locking>>

\* Handshakes::receive_any succeeded for the accepted stream: it reports the
\* address the peer saw for this node (receiver_address) and the peer's
\* version message if it sent one (version is <<>> or <<height>>). sync is
\* what the version leads to:
\*   "skip"       no version, a height not above ours, the sync handler
\*                locked elsewhere or already syncing;
\*   "no_locator" sync_node adopted, get_block_locator_hashes failed;
\*   "sent"       sync_node adopted and GetSync written;
\*   "write_err"  sync_node adopted and the write of GetSync failed: the
\*                unwrap panics the acceptor task before the reader is
\*                spawned.
listen_handshake(receiver_address, version, sync) ==
    LET a == acceptor.peer
        adopt == sync # "skip"
    IN
    /\ acceptor.pc = "handshake"
    /\ adopt => /\ version # <<>>
                /\ has_longer_chain(version[1], latest_block_height)
                /\ ~is_syncing
    /\ IF local_address # receiver_address
       THEN /\ local_address' = receiver_address
            /\ peer_book' = forget_peer(peer_book, receiver_address)
       ELSE UNCHANGED <<local_address, peer_book>>
    /\ connections' = connections \cup {a}
    /\ sync_node' = IF adopt THEN {a} ELSE sync_node
    /\ IF sync = "write_err"
       THEN /\ acceptor' = [acceptor EXCEPT !.pc = "panicked",
                                            !.version = version]
            /\ stream' = [stream EXCEPT ![a] = "closed"]
            /\ UNCHANGED readers
       ELSE /\ acceptor' = [acceptor EXCEPT !.pc = "accept",
                                            !.version = version,
                                            !.getsync = (sync = "sent")]
            /\ stream' = [stream EXCEPT ![a] = "open"]
            /\ readers' = [readers EXCEPT ![a] = NewReader]
    /\ requested' = IF sync = "sent"
                    THEN requested \cup {<<a, "getsync", 0>>}
                    ELSE requested
    /\ UNCHANGED <<sync_state, pending_hashes, latest_block_height, queue,
                   ack, main, handled, handshakes, last, locking>>

----------------------------------------------------------------------------
(* The reader task of spawn_connection_thread, one per channel             *)

\* A reader that gives up at its first failure.
should_disconnect_at_once(failure_count) == failure_count >= 1

should_disconnect(failure_count) == failure_count >= FailureLimit

\* A handle_failure that counts every failure.
handle_failure_every(r) ==
    [r EXCEPT !.failure = TRUE,
              !.failure_count = (r.failure_count + 1) % 256,
              !.disconnect_from_peer =
                  should_disconnect((r.failure_count + 1) % 256)]

\* handle_failure on the reader's locals r: only the first failure of an
\* iteration counts (failure_count is a u8).
handle_failure(r) ==
    IF ~r.failure
    THEN [r EXCEPT !.failure = TRUE,
                   !.failure_count = (r.failure_count + 1) % 256,
                   !.disconnect_from_peer =
                       should_disconnect((r.failure_count + 1) % 256)]
    ELSE r

\* Top of the loop, channel.read() returns a frame. Its name and bytes are
\* the peer's choice and nothing looks at them before the handler
\* dispatches, so the model draws them there; the reader only numbers the
\* frame.
read_ok(a) ==
    /\ readers[a].pc = "read"
    /\ stream[a] = "open"
    /\ readers' = [readers EXCEPT ![a] =
                     [@ EXCEPT !.failure = FALSE, !.msg = "frame",
                               !.seq = (@ + 1) % SeqMod, !.pc = "send"]]
    /\ UNCHANGED <<local_address, peer_book, connections, sync_state,
                   pending_hashes, latest_block_height, sync_node, stream,
                   acceptor, queue, ack, main, handled, handshakes, last,
                   requested, locking>>

\* The reader's locals after a failed read: the failure is counted, and
\* either the loop continues with the next read or, at the limit, a
\* synthetic disconnect message is what gets forwarded.
read_err_step(r) ==
    LET f == handle_failure([r EXCEPT !.failure = FALSE])
    IN  IF f.disconnect_from_peer
        THEN [f EXCEPT !.msg = "disconnect", !.seq = (@ + 1) % SeqMod,
                       !.pc = "send"]
        ELSE [f EXCEPT !.failure = FALSE, !.pc = "read"]

\* Top of the loop, channel.read() fails. error is "PeerDisconnected" when
\* the peer has closed the stream, after which every read fails the same
\* way, and "other" for a failure that leaves the stream usable.
read_err(a, error) ==
    /\ readers[a].pc = "read"
    /\ stream[a] \in {"open", "eof"}
    /\ error = "other" => stream[a] = "open"
    /\ stream' = [stream EXCEPT
                    ![a] = IF error = "PeerDisconnected" THEN "eof" ELSE @]
    /\ readers' = [readers EXCEPT ![a] = read_err_step(@)]
    /\ UNCHANGED <<local_address, peer_book, connections, sync_state,
                   pending_hashes, latest_block_height, sync_node, acceptor,
                   queue, ack, main, handled, handshakes, last, requested,
                   locking>>

\* message_handler_sender.send(..): the tuple joins the queue, or the send
\* fails because the receiver is gone and the tuple, with its one-shot
\* sender, is dropped.
forward(a) ==
    /\ readers[a].pc = "send"
    /\ IF main # "failed"
       THEN /\ queue' = Append(queue, [from |-> a, name |-> readers[a].msg,
                                       seq |-> readers[a].seq])
            /\ ack' = [ack EXCEPT ![a] = "pending"]
            /\ readers' = [readers EXCEPT ![a] = [@ EXCEPT !.pc = "wait"]]
       ELSE /\ queue' = queue
            /\ ack' = [ack EXCEPT ![a] = "dropped"]
            /\ readers' = [readers EXCEPT ![a] =
                             [handle_failure(@) EXCEPT !.pc = "wait"]]
    /\ UNCHANGED <<local_address, peer_book, connections, sync_state,
                   pending_hashes, latest_block_height, sync_node, stream,
                   acceptor, main, handled, handshakes, last, requested,
                   locking>>

\* A reader that does not wait for rx: it goes on while the tuple it sent is
\* still with the handler.
await_ack_unawaited(a) ==
    /\ readers[a].pc = "wait"
    /\ readers' = [readers EXCEPT ![a] =
                     IF @.disconnect_from_peer
                     THEN [@ EXCEPT !.pc = "done"]
                     ELSE [@ EXCEPT !.pc = "read", !.failure = FALSE,
                                    !.msg = "none"]]
    /\ ack' = [ack EXCEPT ![a] = "none"]
    /\ UNCHANGED <<local_address, peer_book, connections, sync_state,
                   pending_hashes, latest_block_height, sync_node, stream,
                   acceptor, queue, main, handled, handshakes, last,
                   requested, locking>>

\* rx.await resolves: with the channel the handler sent back, or with an
\* error when the one-shot sender was dropped. Then the loop ends if
\* disconnect_from_peer is set and starts over otherwise.
await_ack(a) ==
    /\ readers[a].pc = "wait"
    /\ ack[a] \in {"sent", "dropped"}
    /\ LET r == IF ack[a] = "sent" THEN readers[a]
                ELSE handle_failure(readers[a])
       IN  readers' = [readers EXCEPT ![a] =
                         IF r.disconnect_from_peer
                         THEN [r EXCEPT !.pc = "done"]
                         ELSE [r EXCEPT !.pc = "read", !.failure = FALSE,
                                        !.msg = "none"]]
    /\ ack' = [ack EXCEPT ![a] = "none"]
    /\ last' = IF last.from = a THEN NoDispatch ELSE last
    /\ UNCHANGED <<local_address, peer_book, connections, sync_state,
                   pending_hashes, latest_block_height, sync_node, stream,
                   acceptor, queue, main, handled, handshakes, requested,
                   locking>>

----------------------------------------------------------------------------
(* The central message handler                                             *)

\* self.receiver.recv() has a tuple to yield: the oldest of the queue.
Received ==
    /\ main = "handler"
    /\ queue # <<>>

\* A handler whose recv() yields the oldest tuple without taking it off the
\* queue.
acknowledge_unpopped(m) ==
    /\ queue' = queue
    /\ ack' = [ack EXCEPT ![m.from] = "sent"]
    /\ handled' = [handled EXCEPT ![m.from] = (@ + 1) % SeqMod]
    /\ main' = main

\* tx.send(channel) at the end of the loop body: the reader gets its channel
\* back, and the loop goes on to the next tuple.
acknowledge(m) ==
    /\ queue' = Tail(queue)
    /\ ack' = [ack EXCEPT ![m.from] = "sent"]
    /\ handled' = [handled EXCEPT ![m.from] = (@ + 1) % SeqMod]
    /\ main' = main

\* A `?` inside the loop body: message_handler returns the error, listen
\* returns it, and the server with its receiver is dropped: the tuple in
\* hand and every queued tuple are dropped with their one-shot senders.
propagate_error(m) ==
    /\ queue' = <<>>
    /\ ack' = [a \in Addr |-> IF ack[a] = "pending" THEN "dropped" ELSE ack[a]]
    /\ handled' = [handled EXCEPT ![m.from] = (@ + 1) % SeqMod]
    /\ main' = "failed"

finish(m, ok) == IF ok THEN acknowledge(m) ELSE propagate_error(m)

\* A frame with a known name whose payload does not deserialize.
deserialize_error ==
    /\ Received
    /\ LET m == Head(queue) IN
       /\ m.name = "frame"
       /\ propagate_error(m)
       /\ last' = Dispatch(m.from, "malformed", <<>>, TRUE, {})
       /\ UNCHANGED <<local_address, peer_book, connections, sync_state,
                      pending_hashes, latest_block_height, sync_node, stream,
                      acceptor, readers, handshakes, requested, locking>>

\* A frame whose name is none of the known ones: logged and acknowledged.
receive_unknown ==
    /\ Received
    /\ LET m == Head(queue) IN
       /\ m.name = "frame"
       /\ acknowledge(m)
       /\ last' = Dispatch(m.from, "unknown", <<>>, TRUE, {})
       /\ UNCHANGED <<local_address, peer_book, connections, sync_state,
                      pending_hashes, latest_block_height, sync_node, stream,
                      acceptor, readers, handshakes, requested, locking>>

\* The synthetic disconnect message of a reader.
receive_disconnect ==
    /\ Received
    /\ LET m == Head(queue) IN
       /\ m.name = "disconnect"
       /\ peer_book' = disconnect_peer(peer_book, m.from)
       /\ acknowledge(m)
       /\ last' = Dispatch(m.from, "disconnect", <<>>, TRUE, {})
       /\ UNCHANGED <<local_address, connections, sync_state, pending_hashes,
                      latest_block_height, sync_node, stream, acceptor,
                      readers, handshakes, requested, locking>>

\* block, getblock, getmemorypool, getpeers, getsync, memorypool, sync,
\* syncblock, transaction: none of them writes the peer book, the
\* connection table or local_address; each ends Ok or with an error of
\* storage, consensus or a channel write.
receive_other(ok) ==
    /\ Received
    /\ LET m == Head(queue) IN
       /\ m.name = "frame"
       /\ finish(m, ok)
       /\ last' = Dispatch(m.from, "other", <<>>, TRUE, {})
       /\ UNCHANGED <<local_address, peer_book, connections, sync_state,
                      pending_hashes, latest_block_height, sync_node, stream,
                      acceptor, readers, handshakes, requested, locking>>

\* A receive_verack that admits the sender whatever the registry answers.
receive_verack_admitting(accepted, write_ok) ==
    /\ Received
    /\ LET m == Head(queue) IN
       /\ m.name = "frame"
       /\ peer_book' = update_connected(peer_book, m.from)
       /\ handshakes' = handshakes \cup {m.from}
       /\ finish(m, write_ok)
       /\ last' = Dispatch(m.from, "verack", <<>>, accepted,
                           IF write_ok THEN {<<m.from, "getpeers">>} ELSE {})
       /\ UNCHANGED <<local_address, connections, sync_state, sync_node,
                      pending_hashes, latest_block_height, stream, acceptor,
                      readers, requested, locking>>

\* receive_verack: a verack the handshake registry accepts (accepted) marks
\* the sender connected and asks it for its peers; a refused one is logged.
receive_verack(accepted, write_ok) ==
    /\ Received
    /\ LET m == Head(queue) IN
       /\ m.name = "frame"
       /\ IF accepted
          THEN /\ peer_book' = update_connected(peer_book, m.from)
               /\ handshakes' = handshakes \cup {m.from}
               /\ finish(m, write_ok)
               /\ last' = Dispatch(m.from, "verack", <<>>, TRUE,
                                   IF write_ok THEN {<<m.from, "getpeers">>}
                                   ELSE {})
          ELSE /\ write_ok
               /\ UNCHANGED <<peer_book, handshakes>>
               /\ acknowledge(m)
               /\ last' = Dispatch(m.from, "verack", <<>>, FALSE, {})
       /\ UNCHANGED <<local_address, connections, sync_state, pending_hashes,
                      latest_block_height, sync_node, stream, acceptor,
                      readers, requested, locking>>

\* The loop of receive_peers over the addresses of the message.
RECURSIVE MergePeers(_, _, _)
MergePeers(book, addresses, local) ==
    IF addresses = {} THEN book
    ELSE LET addr == CHOOSE x \in addresses : TRUE
             next == IF local = addr THEN book
                     ELSE IF connected_contains(book, addr)
                          THEN update_connected(book, addr)
                          ELSE update_gossiped(book, addr)
         IN  MergePeers(next, addresses \ {addr}, local)

\* receive_peers: merge the addresses, then refresh the sender as connected.
receive_peers(addresses) ==
    /\ Received
    /\ LET m == Head(queue) IN
       /\ m.name = "frame"
       /\ peer_book' = update_connected(
                           MergePeers(peer_book, addresses, local_address),
                           m.from)
       /\ acknowledge(m)
       /\ last' = Dispatch(m.from, "peers", <<>>, TRUE, {})
       /\ UNCHANGED <<local_address, connections, sync_state, pending_hashes,
                      latest_block_height, sync_node, stream, acceptor,
                      readers, handshakes, requested, locking>>

\* receive_ping: refresh the sender if it is connected, answer with a pong.
receive_ping(write_ok) ==
    /\ Received
    /\ LET m == Head(queue) IN
       /\ m.name = "frame"
       /\ peer_book' = IF connected_contains(peer_book, m.from)
                       THEN update_connected(peer_book, m.from)
                       ELSE peer_book
       /\ finish(m, write_ok)
       /\ last' = Dispatch(m.from, "ping", <<>>, TRUE,
                           IF write_ok THEN {<<m.from, "pong">>} ELSE {})
       /\ UNCHANGED <<local_address, connections, sync_state, pending_hashes,
                      latest_block_height, sync_node, stream, acceptor,
                      readers, handshakes, requested, locking>>

\* receive_pong: a pong the ping registry accepts (accepted) marks the
\* sender connected; a refused one is logged.
receive_pong(accepted) ==
    /\ Received
    /\ LET m == Head(queue) IN
       /\ m.name = "frame"
       /\ peer_book' = IF accepted THEN update_connected(peer_book, m.from)
                       ELSE peer_book
       /\ acknowledge(m)
       /\ last' = Dispatch(m.from, "pong", <<>>, accepted, {})
       /\ UNCHANGED <<local_address, connections, sync_state, pending_hashes,
                      latest_block_height, sync_node, stream, acceptor,
                      readers, handshakes, requested, locking>>

\* receive_version: peer_address has the channel's host and the port the
\* message names, height is the height the message advertises. outcome is
\* what the step leads to once the cap and the self-address test pass:
\*   "request_err" Handshakes::receive_request fails;
\*   "skip"        handshake recorded; height not above ours, sync handler
\*                 locked elsewhere, or already syncing;
\*   "no_locator"  sync_node adopted, get_block_locator_hashes failed;
\*   "sent"        sync_node adopted, GetSync written;
\*   "write_err"   sync_node adopted, the write of GetSync failed.
receive_version(peer_address, height, outcome) ==
    /\ Received
    /\ LET m == Head(queue)
           adopt == outcome \in {"no_locator", "sent", "write_err"}
       IN
       /\ m.name = "frame"
       /\ IpOf(peer_address) = IpOf(m.from)
       /\ adopt => /\ has_longer_chain(height, latest_block_height)
                   /\ ~is_syncing
       /\ IF /\ \/ connected_total(peer_book) < max_peers
                \/ connected_contains(peer_book, peer_address)
             /\ local_address # peer_address
          THEN /\ sync_node' = IF adopt THEN {peer_address} ELSE sync_node
               /\ finish(m, outcome \notin {"request_err", "write_err"})
               /\ last' = Dispatch(m.from, "version",
                                   <<height, peer_address>>,
                                   outcome # "request_err",
                                   IF outcome = "sent"
                                   THEN {<<m.from, "getsync">>} ELSE {})
               /\ requested' = IF outcome = "sent"
                               THEN requested \cup {<<m.from, "getsync", 0>>}
                               ELSE requested
          ELSE /\ outcome = "skip"
               /\ UNCHANGED <<sync_node, requested>>
               /\ acknowledge(m)
               /\ last' = Dispatch(m.from, "version",
                                   <<height, peer_address>>, FALSE, {})
       /\ UNCHANGED <<local_address, peer_book, connections, sync_state,
                      pending_hashes, latest_block_height, stream, acceptor,
                      readers, handshakes, locking>>

----------------------------------------------------------------------------
(* Sync handler and storage (modelled from the specification, sections 4.6 *)
(* and 4.10). The chain in storage is the blocks of heights                *)
(* 1..latest_block_height; consensus accepts a block only on top of it.    *)

Heights == 0..MaxHeight
Blocks == 1..MaxHeight

\* storage.block_hash_exists
block_hash_exists(latest, hash) == hash <= latest

\* The lists of hashes a sync message carries: the hashes of consecutive
\* heights in ascending order, as receive_get_sync collects them, from
\* any height of the peer's chain on.
HashLists ==
    {hs \in {[i \in 1..n |-> lo + i] : lo \in Heights, n \in 0..MaxHeight} :
        \A i \in DOMAIN hs : hs[i] \in Blocks}

\* The hashes of hs whose blocks storage lacks, in the order of hs.
Lacking(hs, latest) ==
    SelectSeq(hs, LAMBDA h : ~block_hash_exists(latest, h))

\* SyncHandler::receive_hashes: pending_hashes becomes the hashes not in
\* storage; a non-empty list starts syncing. The result is the pair of the
\* new sync_state and the new pending_hashes, as for the next two.
receive_hashes(state, hashes, latest) ==
    LET pending == Lacking(hashes, latest)
    IN  <<IF pending # <<>> THEN "Syncing" ELSE state, pending>>

\* SyncHandler::clear_pending: the hashes whose blocks are now in storage
\* are dropped; with none left the handler is idle.
clear_pending(state, pending, latest) ==
    LET rest == Lacking(pending, latest)
    IN  <<IF rest = <<>> THEN "Idle" ELSE state, rest>>

\* An increment that goes idle at the last hash and keeps the list.
increment_keeping(state, pending) ==
    <<IF Len(pending) <= 1 THEN "Idle" ELSE state, pending>>

\* SyncHandler::increment: the next pending hash is taken off the list to
\* be asked for with GetBlock; with all of them taken the handler is idle.
increment(state, pending) ==
    LET rest == IF pending = <<>> THEN <<>> ELSE Tail(pending)
    IN  <<IF rest = <<>> THEN "Idle" ELSE state, rest>>

\* The GetBlock that increment writes to the channel of address to.
GetBlockOf(to, pending) ==
    IF pending = <<>> THEN {} ELSE {<<to, <<"getblock", Head(pending)>>>>}

\* The same GetBlock as the request the peer has to answer.
AsksFor(to, pending) ==
    IF pending = <<>> THEN {} ELSE {<<to, "getblock", Head(pending)>>}

\* propagate_block: the block goes to every connected peer but the sender.
propagate_block(book, block, sender) ==
    {<<q, <<"block", block>>>> : q \in book.connected \ {sender}}

\* A receive_block_message that fans a block out whether or not consensus
\* took it.
receive_block_message_eager(block, propagate, inserted) ==
    /\ Received
    /\ LET m == Head(queue)
           cleared == clear_pending(sync_state, pending_hashes,
                                    latest_block_height)
       IN
       /\ m.name = "frame"
       /\ ~block_hash_exists(latest_block_height, block)
       /\ ~inserted
       /\ propagate
       /\ sync_state' = cleared[1]
       /\ pending_hashes' = cleared[2]
       /\ last' = Dispatch(m.from, "block", <<block>>, inserted,
                           propagate_block(peer_book, block, m.from))
       /\ acknowledge(m)
       /\ UNCHANGED <<local_address, peer_book, connections, sync_node,
                      latest_block_height, stream, acceptor, readers,
                      handshakes, requested, locking>>

\* A receive_block_message that stores a syncblock and asks for no next
\* block.
receive_block_message_unasking(block, propagate, inserted) ==
    /\ Received
    /\ LET m == Head(queue)
           cleared == clear_pending(sync_state, pending_hashes,
                                    latest_block_height + 1)
       IN
       /\ m.name = "frame"
       /\ block = latest_block_height + 1
       /\ inserted
       /\ ~propagate
       /\ latest_block_height' = latest_block_height + 1
       /\ sync_state' = cleared[1]
       /\ pending_hashes' = cleared[2]
       /\ requested' = requested \ {<<m.from, "getblock", block>>}
       /\ last' = Dispatch(m.from, "syncblock", <<block>>, inserted, {})
       /\ acknowledge(m)
       /\ UNCHANGED <<local_address, peer_book, connections, sync_node,
                      stream, acceptor, readers, handshakes, locking>>

\* A receive_block_message that goes on to the next pending hash also for
\* a syncblock whose block storage already has.
receive_block_message_resuming(block, propagate, inserted) ==
    /\ Received
    /\ LET m == Head(queue)
           name == IF propagate THEN "block" ELSE "syncblock"
           latest == IF inserted THEN latest_block_height + 1
                     ELSE latest_block_height
           cleared == clear_pending(sync_state, pending_hashes, latest)
           asks == /\ ~(inserted /\ propagate)
                   /\ ~propagate
                   /\ cleared[1] # "Idle"
                   /\ sync_node \subseteq connections
                   /\ sync_node # {}
           next == IF asks THEN increment(cleared[1], cleared[2])
                   ELSE cleared
       IN
       /\ m.name = "frame"
       /\ inserted => block = latest_block_height + 1
       /\ requested' =
            (IF propagate THEN requested
             ELSE requested \ {<<m.from, "getblock", block>>})
            \cup (IF asks
                  THEN AsksFor(CHOOSE n \in sync_node : TRUE, cleared[2])
                  ELSE {})
       /\ IF block_hash_exists(latest_block_height, block)
          THEN /\ ~inserted
               /\ UNCHANGED latest_block_height
               /\ sync_state' = next[1]
               /\ pending_hashes' = next[2]
               /\ last' = Dispatch(m.from, name, <<block>>, FALSE,
                     IF asks
                     THEN GetBlockOf(CHOOSE n \in sync_node : TRUE,
                                     cleared[2])
                     ELSE {})
          ELSE /\ latest_block_height' = latest
               /\ sync_state' = next[1]
               /\ pending_hashes' = next[2]
               /\ last' = Dispatch(m.from, name, <<block>>, inserted,
                     IF inserted /\ propagate
                     THEN propagate_block(peer_book, block, m.from)
                     ELSE IF asks
                          THEN GetBlockOf(CHOOSE n \in sync_node : TRUE,
                                          cleared[2])
                          ELSE {})
       /\ acknowledge(m)
       /\ UNCHANGED <<local_address, peer_book, connections, sync_node,
                      stream, acceptor, readers, handshakes, locking>>

\* receive_block_message for a block (propagate) or a syncblock message:
\* inserted is the outcome of consensus.receive_block for a block storage
\* lacks.
receive_block_message(block, propagate, inserted) ==
    /\ Received
    /\ LET m == Head(queue)
           name == IF propagate THEN "block" ELSE "syncblock"
           latest == IF inserted THEN latest_block_height + 1
                     ELSE latest_block_height
           cleared == clear_pending(sync_state, pending_hashes, latest)
           asks == /\ ~(inserted /\ propagate)
                   /\ ~propagate
                   /\ cleared[1] # "Idle"
                   /\ sync_node \subseteq connections
                   /\ sync_node # {}
           next == IF asks THEN increment(cleared[1], cleared[2])
                   ELSE cleared
       IN
       /\ m.name = "frame"
       /\ inserted => block = latest_block_height + 1
       /\ requested' =
            (IF propagate THEN requested
             ELSE requested \ {<<m.from, "getblock", block>>})
            \cup (IF ~block_hash_exists(latest_block_height, block) /\ asks
                  THEN AsksFor(CHOOSE n \in sync_node : TRUE, cleared[2])
                  ELSE {})
       /\ IF block_hash_exists(latest_block_height, block)
          THEN /\ ~inserted
               /\ UNCHANGED <<sync_state, pending_hashes,
                              latest_block_height>>
               /\ last' = Dispatch(m.from, name, <<block>>, FALSE, {})
          ELSE /\ latest_block_height' = latest
               /\ sync_state' = next[1]
               /\ pending_hashes' = next[2]
               /\ last' = Dispatch(m.from, name, <<block>>, inserted,
                     IF inserted /\ propagate
                     THEN propagate_block(peer_book, block, m.from)
                     ELSE IF asks
                          THEN GetBlockOf(CHOOSE n \in sync_node : TRUE,
                                          cleared[2])
                          ELSE {})
       /\ acknowledge(m)
       /\ UNCHANGED <<local_address, peer_book, connections, sync_node,
                      stream, acceptor, readers, handshakes, locking>>

\* receive_sync: the hashes go to the sync handler, and the first of them
\* is asked for at once if the sync node has a stored channel.
receive_sync(hashes) ==
    /\ Received
    /\ LET m == Head(queue)
           got == receive_hashes(sync_state, hashes, latest_block_height)
           asks == sync_node # {} /\ sync_node \subseteq connections
           next == IF asks THEN increment(got[1], got[2]) ELSE got
       IN
       /\ m.name = "frame"
       /\ sync_state' = next[1]
       /\ pending_hashes' = next[2]
       /\ requested' =
            (requested \ {<<m.from, "getsync", 0>>})
            \cup (IF asks
                  THEN AsksFor(CHOOSE n \in sync_node : TRUE, got[2])
                  ELSE {})
       /\ last' = Dispatch(m.from, "sync", hashes, TRUE,
                           IF asks
                           THEN GetBlockOf(CHOOSE n \in sync_node : TRUE,
                                           got[2])
                           ELSE {})
       /\ acknowledge(m)
       /\ UNCHANGED <<local_address, peer_book, connections, sync_node,
                      latest_block_height, stream, acceptor, readers,
                      handshakes, locking>>

\* The hashes receive_get_sync collects for a requester whose latest
\* shared block is at height, without the limit on their number.
sync_hashes_uncapped(height, current_height) ==
    IF height < current_height
    THEN [i \in 1..(current_height - height) |-> height + i]
    ELSE <<>>

\* The hashes receive_get_sync collects for a requester whose latest shared
\* block is at height: those of the blocks height + 1..=max_height.
sync_hashes(height, current_height) ==
    IF height < current_height
    THEN LET max_height == IF height + SyncCap < current_height
                           THEN height + SyncCap
                           ELSE current_height
         IN  [i \in 1..(max_height - height) |-> height + i]
    ELSE <<>>

\* receive_get_sync: the latest shared hash of the locator is at height if
\* known (get_block_number answered), which then is a height of the chain
\* in storage.
receive_get_sync(height, known) ==
    /\ Received
    /\ LET m == Head(queue)
           block_hashes == IF known
                           THEN sync_hashes(height, latest_block_height)
                           ELSE <<>>
       IN
       /\ m.name = "frame"
       /\ height <= latest_block_height
       /\ last' = Dispatch(m.from, "getsync", <<height>>, known,
                           {<<m.from, <<"sync", block_hashes>>>>})
       /\ acknowledge(m)
       /\ UNCHANGED <<local_address, peer_book, connections, sync_state,
                      pending_hashes, latest_block_height, sync_node,
                      stream, acceptor, readers, handshakes, requested,
                      locking>>

----------------------------------------------------------------------------
InitWith(height) ==
    /\ local_address = 1
    /\ peer_book = [connected |-> {}, gossiped |-> {}, disconnected |-> {}]
    /\ connections = {}
    /\ sync_state = "Idle"
    /\ sync_node = {}
    /\ stream = [a \in Addr |-> "none"]
    /\ acceptor = [pc |-> "accept", peer |-> 1, version |-> <<>>,
                   getsync |-> FALSE]
    /\ readers = [a \in Addr |->
                    [pc |-> "none", failure |-> FALSE, failure_count |-> 0,
                     disconnect_from_peer |-> FALSE, msg |-> "none",
                     seq |-> 0]]
    /\ queue = <<>>
    /\ ack = [a \in Addr |-> "none"]
    /\ main = "bootnodes"
    /\ handled = [a \in Addr |-> 0]
    /\ handshakes = {}
    /\ last = NoDispatch
    /\ requested = {}
    /\ pending_hashes = <<>>
    /\ latest_block_height = height
    /\ locking = [t \in Tasks |-> NoLocks]

\* Server::new over an empty chain.
Init == InitWith(0)

\* The remote hosts that open a connection to this node.
Remote == {2, 3}

\* The remote host whose stream also fails in ways that leave it usable.
Flaky == {2}

ReadErrors == {"PeerDisconnected", "other"}

\* The addresses a peer reports as the one it sees this node at: the
\* configured one, or one of the remote hosts' own.
Reported == Remote \cup {1}

\* The reader and handler protocol: peers whose frames are malformed, of an
\* unknown name or of the block and transaction family, one of them over a
\* stream that fails in every way. No bootnodes and no address discovery;
\* a peer advertising a greater height is one the write of GetSync fails for.
NextReaders ==
    \/ connect_bootnodes(<<>>)
    \/ \E a \in Remote : listen_accept(a)
    \/ listen_handshake_failed
    \/ listen_handshake(local_address, <<>>, "skip")
    \/ listen_handshake(local_address, <<1>>, "write_err")
    \/ \E a \in Remote : read_ok(a)
    \/ \E a \in Flaky, e \in ReadErrors : read_err(a, e)
    \/ \E a \in Remote : forward(a)
    \/ \E a \in Remote : await_ack(a)
    \/ deserialize_error
    \/ receive_unknown
    \/ receive_disconnect
    \/ \E ok \in BOOLEAN : receive_other(ok)

SpecReaders == Init /\ [][NextReaders]_vars

\* The peer book: every start-up configuration, handshakes with address
\* discovery, peers that send verack, peers, ping and pong frames and
\* close their streams; channel writes succeed and no peer sends a version.
NextBook ==
    \/ \E bn \in BootnodeLists : connect_bootnodes(bn)
    \/ \E a \in Remote : listen_accept(a)
    \/ listen_handshake_failed
    \/ \E r \in Reported : listen_handshake(r, <<>>, "skip")
    \/ \E a \in Remote : read_ok(a)
    \/ \E a \in Flaky : read_err(a, "PeerDisconnected")
    \/ \E a \in Remote : forward(a)
    \/ \E a \in Remote : await_ack(a)
    \/ receive_disconnect
    \/ \E accepted \in BOOLEAN : receive_verack(accepted, TRUE)
    \/ \E addresses \in SUBSET Addr : receive_peers(addresses)
    \/ receive_ping(TRUE)
    \/ \E accepted \in BOOLEAN : receive_pong(accepted)

SpecBook == Init /\ [][NextBook]_vars

\* The peer the node synchronises its chain with.
SyncPeer == 2

\* Chain synchronisation with one peer that advertises every height in the
\* handshake and in version frames and sends sync, block and syncblock
\* frames of every content; every write succeeds and no stream fails.
NextSync ==
    \/ connect_bootnodes(<<>>)
    \/ listen_accept(SyncPeer)
    \/ \E h \in Heights, sync \in {"skip", "no_locator", "sent"} :
          listen_handshake(local_address, <<h>>, sync)
    \/ read_ok(SyncPeer)
    \/ forward(SyncPeer)
    \/ await_ack(SyncPeer)
    \/ \E p \in Addr, h \in Heights, outcome \in {"skip", "no_locator", "sent"} :
          receive_version(p, h, outcome)
    \/ \E hashes \in HashLists : receive_sync(hashes)
    \/ \E block \in Blocks, propagate, inserted \in BOOLEAN :
          receive_block_message(block, propagate, inserted)

SpecSync == Init /\ [][NextSync]_vars

\* Block propagation: two peers that complete the handshake and send block
\* and syncblock frames of every height, which consensus takes or refuses;
\* every write succeeds and no stream fails.
NextBlocks ==
    \/ connect_bootnodes(<<>>)
    \/ \E a \in Remote : listen_accept(a)
    \/ listen_handshake(local_address, <<>>, "skip")
    \/ \E a \in Remote : read_ok(a)
    \/ \E a \in Remote : forward(a)
    \/ \E a \in Remote : await_ack(a)
    \/ receive_verack(TRUE, TRUE)
    \/ \E block \in Blocks, propagate, inserted \in BOOLEAN :
          receive_block_message(block, propagate, inserted)

SpecBlocks == Init /\ [][NextBlocks]_vars

\* The heights of the chain in storage and of the latest shared block in
\* a getsync exchange: near 0 and near the limit of one Sync.
ChainHeights == (0..Slack) \cup ((SyncCap - Slack)..(SyncCap + Slack))

\* Server::new over a chain loaded from storage.
InitGetSync == \E height \in ChainHeights : InitWith(height)

\* Serving getsync: one peer that asks for the hashes after every height of
\* the chain in storage, with a locator whose latest shared hash is known
\* or not; every write succeeds and no stream fails.
NextGetSync ==
    \/ connect_bootnodes(<<>>)
    \/ listen_accept(SyncPeer)
    \/ listen_handshake(local_address, <<>>, "skip")
    \/ read_ok(SyncPeer)
    \/ forward(SyncPeer)
    \/ await_ack(SyncPeer)
    \/ \E height \in ChainHeights, known \in BOOLEAN :
          receive_get_sync(height, known)

SpecGetSync == InitGetSync /\ [][NextGetSync]_vars

\* The requests the sync peer has still to answer.
Due == {q \in requested : q[1] = SyncPeer}

\* The frame the sync peer answers GetSync with: the hashes after the
\* requester's height up to the height it advertised, computed as it
\* computes them itself.
SyncAnswer == sync_hashes(latest_block_height, acceptor.version[1])

\* What the reader and the handler do with the frames of SyncPeer.
ReaderSteps ==
    \/ Due # {} /\ read_ok(SyncPeer)
    \/ forward(SyncPeer)
    \/ await_ack(SyncPeer)

HandlerSteps ==
    \/ /\ <<SyncPeer, "getsync", 0>> \in Due
       /\ receive_sync(SyncAnswer)
    \/ \E block \in Blocks :
          /\ <<SyncPeer, "getblock", block>> \in Due
          /\ receive_block_message(block, FALSE, TRUE)

\* Catching up with a cooperative sync peer: it advertises the height of
\* its chain in the handshake and from then on sends exactly one frame per
\* request, the Sync or the SyncBlock asked for; consensus takes its
\* blocks, every write succeeds and no stream fails.
NextCatchUp ==
    \/ connect_bootnodes(<<>>)
    \/ listen_accept(SyncPeer)
    \/ \E h \in Heights, sync \in {"skip", "no_locator", "sent"} :
          listen_handshake(local_address, <<h>>, sync)
    \/ ReaderSteps
    \/ HandlerSteps

\* Server::new over a chain of any height loaded from storage.
InitCatchUp == \E height \in Heights : InitWith(height)

\* The reader task and the handler loop are tasks of the runtime, which
\* runs every task that can take a step.
SpecCatchUp ==
    /\ InitCatchUp
    /\ [][NextCatchUp]_vars
    /\ WF_vars(ReaderSteps)
    /\ WF_vars(HandlerSteps)

\* Version frames after the handshake: one peer that reports the node's
\* address as the configured one or as another host's, and then sends
\* version frames naming every port of its host and every height, which
\* the handshake registry takes or refuses; the sync handler is free.
NextVersion ==
    \/ connect_bootnodes(<<>>)
    \/ listen_accept(SyncPeer)
    \/ \E r \in Reported \ {SyncPeer} : listen_handshake(r, <<>>, "skip")
    \/ read_ok(SyncPeer)
    \/ forward(SyncPeer)
    \/ await_ack(SyncPeer)
    \/ \E p \in Addr, h \in Heights,
          outcome \in {"skip", "no_locator", "sent", "request_err"} :
          receive_version(p, h, outcome)

SpecVersion == Init /\ [][NextVersion]_vars

----------------------------------------------------------------------------
(* The locks of the Context (peer_book, connections, handshakes, pings,    *)
(* local_address: RwLocks) and of the Server (memory_pool_lock,            *)
(* sync_handler_lock: Mutexes), as the acceptor of listen, the message     *)
(* handler and the task of send_handshake_non_blocking take them. Each     *)
(* function is cut at its lock operations: a task acquires, tries or drops *)
(* one guard per step, and the statements in between are steps of their    *)
(* own. A guard that is a temporary of an `if let` or `match` scrutinee    *)
(* lives to the end of that statement, one of an `if` condition to the end *)
(* of the condition, one bound by `let` to the end of its block.           *)

Read(l) == <<"read", l>>          \* RwLock::read().await
Write(l) == <<"write", l>>        \* RwLock::write().await
Lock(l) == <<"lock", l>>          \* Mutex::lock().await
\* A try_lock that waits for the lock as lock().await does.
TryLock_waiting(l, n) == <<"lock", l>>

TryLock(l, n) == <<"try_lock", l, n>>
                                  \* `if let Ok(..) = Mutex::try_lock()`
                                  \* around the n operations that follow
Drop(l) == <<"drop", l>>          \* the guard goes out of scope
Do(s) == <<"do", s>>              \* a statement between lock operations

Holds(t, l) == \E g \in locking[t].held : g[1] = l

\* A read guard is handed out unless a write guard is out; a write guard
\* and a mutex guard are handed out when no guard is out. (tokio's RwLock
\* also makes a reader queue behind a waiting writer; that only adds
\* waiting to what is modelled here.)
Granted(op) ==
    IF op[1] = "read"
    THEN \A u \in Tasks : <<op[2], "write">> \notin locking[u].held
    ELSE \A u \in Tasks : ~Holds(u, op[2])

Acquiring(t) ==
    /\ locking[t].todo # <<>>
    /\ Head(locking[t].todo)[1] \in {"read", "write", "lock"}

\* Task t is at an .await of an acquisition that cannot be granted.
Waiting(t) == Acquiring(t) /\ ~Granted(Head(locking[t].todo))

\* Task t waits for a lock that a guard of task u keeps from it.
WaitsFor(t, u) ==
    /\ Waiting(t)
    /\ LET op == Head(locking[t].todo) IN
       IF op[1] = "read" THEN <<op[2], "write">> \in locking[u].held
       ELSE Holds(u, op[2])

At(t, s) == locking[t].todo # <<>> /\ Head(locking[t].todo) = Do(s)

\* Task t goes on with the operations in rest.
Continue(t, rest) == locking' = [locking EXCEPT ![t].todo = rest]

Proceed(t) == Continue(t, Tail(locking[t].todo))

\* Task t enters a function whose first operations are those in program.
Enter(t, program) ==
    locking' = [locking EXCEPT ![t].todo = program, ![t].tried = "none"]

data == <<local_address, peer_book, connections, sync_state, sync_node,
          pending_hashes, latest_block_height, stream, acceptor, readers,
          queue, ack, main, handled, handshakes, last, requested>>

\* The .await of read(), write() or lock() returns the guard.
acquire(t) ==
    /\ Acquiring(t)
    /\ LET op == Head(locking[t].todo) IN
       /\ Granted(op)
       /\ locking' = [locking EXCEPT
                        ![t].held = @ \cup {<<op[2], op[1]>>},
                        ![t].todo = Tail(@)]
    /\ UNCHANGED data

\* try_lock() returns at once: with the guard, or with an error that makes
\* the `if let` skip its body.
try_lock(t) ==
    /\ locking[t].todo # <<>>
    /\ LET op == Head(locking[t].todo)
           rest == Tail(locking[t].todo)
       IN
       /\ op[1] = "try_lock"
       /\ locking' = [locking EXCEPT ![t] =
            IF Granted(op)
            THEN [held |-> @.held \cup {<<op[2], "lock">>},
                  todo |-> rest, tried |-> "acquired"]
            ELSE [held |-> @.held,
                  todo |-> SubSeq(rest, op[3] + 1, Len(rest)),
                  tried |-> "busy"]]
    /\ UNCHANGED data

\* A guard is dropped.
release(t) ==
    /\ locking[t].todo # <<>>
    /\ LET op == Head(locking[t].todo) IN
       /\ op[1] = "drop"
       /\ locking' = [locking EXCEPT
                        ![t].held = {g \in @ : g[1] # op[2]},
                        ![t].todo = Tail(@)]
    /\ UNCHANGED data

(* The acceptor, server.rs lines 255 to 327 *)

\* From the cap check on: the read guard of the condition.
listen_locks == <<Read("peer_book"), Do("cap")>>

\* The else branch up to the handshake.
listen_handshake_locks ==
    <<Read("local_address"), Drop("local_address"),
      Write("handshakes"), Do("receive_any")>>

listen_discover_locks == <<Write("local_address"), Do("discover")>>

listen_forget_locks ==
    <<Write("peer_book"), Do("forget_peer"), Drop("peer_book")>>

listen_store_locks ==
    <<Write("connections"), Do("store_channel"), Drop("connections"),
      Do("version")>>

\* Lines 307 to 319 of the acceptor, lines 393 to 401 of receive_version.
adopt_locks ==
    <<TryLock("sync_handler", 2), Do("adopt"), Drop("sync_handler")>>

listen_spawn_locks ==
    <<Do("spawn"), Drop("local_address"), Drop("handshakes")>>

\* listener.accept() hands over a stream from remote address a.
listen_accepted(a) ==
    /\ acceptor.pc = "accept"
    /\ locking["acceptor"].todo = <<>>
    /\ stream[a] = "none"
    /\ stream' = [stream EXCEPT ![a] = "accepted"]
    /\ acceptor' = [pc |-> "handshake", peer |-> a,
                    version |-> <<>>, getsync |-> FALSE]
    /\ Enter("acceptor", listen_locks)
    /\ UNCHANGED <<local_address, peer_book, connections, sync_state,
                   pending_hashes, latest_block_height, sync_node, readers,
                   queue, ack, main, handled, handshakes, last, requested>>

\* The cap check under the read guard of the peer book.
listen_cap ==
    LET a == acceptor.peer IN
    /\ At("acceptor", "cap")
    /\ IF connected_total(peer_book) >= max_peers
       THEN \E shutdown_ok \in BOOLEAN :
              /\ stream' = [stream EXCEPT
                              ![a] = IF shutdown_ok THEN "shutdown" ELSE "closed"]
              /\ acceptor' = [acceptor EXCEPT
                                !.pc = IF shutdown_ok THEN "accept"
                                       ELSE "panicked"]
              /\ Continue("acceptor", <<Drop("peer_book")>>)
       ELSE /\ UNCHANGED <<stream, acceptor>>
            /\ Continue("acceptor",
                        <<Drop("peer_book")>> \o listen_handshake_locks)
    /\ UNCHANGED <<local_address, peer_book, connections, sync_state,
                   pending_hashes, latest_block_height, sync_node, readers,
                   queue, ack, main, handled, handshakes, last, requested>>

\* Handshakes::receive_any returns under the write guard of the registry:
\* with the peer's version if it sent one (version is <<>> or <<height>>),
\* or with an error, and then the connection is dropped.
listen_receive_any(ok, version) ==
    LET a == acceptor.peer IN
    /\ At("acceptor", "receive_any")
    /\ IF ok
       THEN /\ acceptor' = [acceptor EXCEPT !.version = version]
            /\ UNCHANGED stream
            /\ Continue("acceptor", listen_discover_locks)
       ELSE /\ version = <<>>
            /\ acceptor' = [acceptor EXCEPT !.pc = "accept"]
            /\ stream' = [stream EXCEPT ![a] = "closed"]
            /\ Continue("acceptor", <<Drop("handshakes")>>)
    /\ UNCHANGED <<local_address, peer_book, connections, sync_state,
                   pending_hashes, latest_block_height, sync_node, readers,
                   queue, ack, main, handled, handshakes, last, requested>>

\* Lines 295 to 297: the address the peer saw for this node is taken for
\* the local address if it differs.
listen_discover(receiver_address) ==
    /\ At("acceptor", "discover")
    /\ local_address' = receiver_address
    /\ Continue("acceptor",
                (IF local_address # receiver_address
                 THEN listen_forget_locks ELSE <<>>)
                \o listen_store_locks)
    /\ UNCHANGED <<peer_book, connections, sync_state, pending_hashes,
                   latest_block_height, sync_node, stream, acceptor, readers,
                   queue, ack, main, handled, handshakes, last, requested>>

\* Line 298, under the write guard of the peer book.
listen_forget_peer ==
    /\ At("acceptor", "forget_peer")
    /\ peer_book' = forget_peer(peer_book, local_address)
    /\ Proceed("acceptor")
    /\ UNCHANGED <<local_address, connections, sync_state, pending_hashes,
                   latest_block_height, sync_node, stream, acceptor, readers,
                   queue, ack, main, handled, handshakes, last, requested>>

\* Line 301, under the write guard of the connection table.
listen_store_channel ==
    /\ At("acceptor", "store_channel")
    /\ connections' = connections \cup {acceptor.peer}
    /\ Proceed("acceptor")
    /\ UNCHANGED <<local_address, peer_book, sync_state, pending_hashes,
                   latest_block_height, sync_node, stream, acceptor, readers,
                   queue, ack, main, handled, handshakes, last, requested>>

\* Lines 303 to 305: a version of a longer chain leads to the sync handler.
listen_version ==
    /\ At("acceptor", "version")
    /\ Continue("acceptor",
                (IF /\ acceptor.version # <<>>
                    /\ has_longer_chain(acceptor.version[1],
                                        latest_block_height)
                 THEN adopt_locks ELSE <<>>)
                \o listen_spawn_locks)
    /\ UNCHANGED data

\* Lines 308 to 318, under the guard of the sync handler. sync is as for
\* listen_handshake; the panic of the unwrap unwinds the task, which drops
\* its guards.
listen_adopt(sync) ==
    LET a == acceptor.peer IN
    /\ At("acceptor", "adopt")
    /\ IF is_syncing
       THEN /\ sync = "skip"
            /\ UNCHANGED <<sync_node, acceptor, stream, requested>>
            /\ Proceed("acceptor")
       ELSE /\ sync \in {"no_locator", "sent", "write_err"}
            /\ sync_node' = {a}
            /\ requested' = IF sync = "sent"
                            THEN requested \cup {<<a, "getsync", 0>>}
                            ELSE requested
            /\ IF sync = "write_err"
               THEN /\ acceptor' = [acceptor EXCEPT !.pc = "panicked"]
                    /\ stream' = [stream EXCEPT ![a] = "closed"]
                    /\ locking' = [locking EXCEPT
                                     !["acceptor"].held = {},
                                     !["acceptor"].todo = <<>>]
               ELSE /\ acceptor' = [acceptor EXCEPT
                                      !.getsync = (sync = "sent")]
                    /\ UNCHANGED stream
                    /\ Proceed("acceptor")
    /\ UNCHANGED <<local_address, peer_book, connections, sync_state,
                   pending_hashes, latest_block_height, readers, queue, ack,
                   main, handled, handshakes, last>>

\* Line 324: the reader of the channel is spawned, and the loop body ends.
listen_spawn ==
    LET a == acceptor.peer IN
    /\ At("acceptor", "spawn")
    /\ stream' = [stream EXCEPT ![a] = "open"]
    /\ readers' = [readers EXCEPT ![a] = NewReader]
    /\ acceptor' = [acceptor EXCEPT !.pc = "accept"]
    /\ Proceed("acceptor")
    /\ UNCHANGED <<local_address, peer_book, connections, sync_state,
                   pending_hashes, latest_block_height, sync_node, queue, ack,
                   main, handled, handshakes, last, requested>>

(* The task of send_handshake_non_blocking, server.rs lines 85 to 101 *)

\* The registry's write guard is the receiver of send_request and the read
\* guard of the local address one of its arguments: both are temporaries
\* of the one statement.
send_handshake_locks ==
    <<Write("handshakes"), Read("local_address"), Do("send_request"),
      Drop("local_address"), Drop("handshakes")>>

\* The connection handler dials an address.
send_handshake_non_blocking ==
    /\ main # "bootnodes"
    /\ locking["dialer"].todo = <<>>
    /\ Enter("dialer", send_handshake_locks)
    /\ UNCHANGED data

\* Handshakes::send_request returns; what it returns is only logged.
send_request ==
    /\ At("dialer", "send_request")
    /\ Proceed("dialer")
    /\ UNCHANGED data

(* The message handler, message_handler.rs *)

\* The names of the frames whose handlers take more than one lock.
LockingNames ==
    {"peers", "pong", "verack", "version", "sync", "block", "syncblock"}

\* receive_peers, lines 214 to 216
receive_peers_locks == <<Write("peer_book"), Do("peers")>>

\* One turn of the loop of receive_peers: the condition of the `if` with
\* its read guard, then the branches.
receive_peers_loop_locks ==
    <<Read("local_address"), Do("address"), Drop("local_address")>>

\* receive_peers, lines 225 to 228
receive_peers_end_locks ==
    <<Do("update_connected"), Drop("peer_book"), Do("acknowledge")>>

\* receive_pong, lines 247 to 254
receive_pong_locks == <<Write("pings"), Do("accept_pong")>>

\* receive_pong, lines 255 to 268
receive_pong_ok_locks ==
    <<Write("peer_book"), Do("update_connected"), Drop("peer_book"),
      Drop("pings"), Do("acknowledge")>>

\* receive_verack, lines 339 to 346
receive_verack_locks == <<Write("handshakes"), Do("accept_response")>>

\* receive_verack, lines 347 to 357
receive_verack_ok_locks ==
    <<Write("peer_book"), Do("update_connected"), Drop("peer_book"),
      Do("getpeers")>>

\* receive_version, lines 378 to 380
receive_version_locks == <<Read("peer_book"), Do("cap")>>

\* receive_version, line 381
receive_version_self_locks == <<Read("local_address"), Do("self")>>

\* receive_version, lines 383 to 388
receive_version_request_locks ==
    <<Drop("local_address"), Write("handshakes"), Do("receive_request")>>

\* A receive_sync that looks the channel of the sync node up before it
\* locks the sync handler.
receive_sync_locks_inverted ==
    <<Read("connections"), Lock("sync_handler"), Do("receive_hashes"),
      Do("increment"), Drop("sync_handler"), Drop("connections"),
      Do("acknowledge")>>

\* receive_sync, lines 307 to 317
receive_sync_locks ==
    <<Lock("sync_handler"), Do("receive_hashes"),
      Read("connections"), Do("increment"), Drop("connections"),
      Drop("sync_handler"), Do("acknowledge")>>

\* receive_block_message, lines 117 to 125
receive_block_locks ==
    <<Lock("mempool"), Do("receive_block"), Drop("mempool"),
      Lock("sync_handler"), Do("clear_pending")>>

\* receive_block_message, lines 134 to 136
receive_block_next_locks ==
    <<Read("connections"), Do("increment"), Drop("connections"),
      Drop("sync_handler"), Do("acknowledge")>>

\* The handler of the frame called name, from its first lock operation.
HandlerLocks(name) ==
    CASE name = "peers" -> receive_peers_locks
      [] name = "pong" -> receive_pong_locks
      [] name = "verack" -> receive_verack_locks
      [] name = "version" -> receive_version_locks
      [] name = "sync" -> receive_sync_locks
      [] OTHER -> <<Do("block_hash_exists")>>

Note(field, value) == last' = [last EXCEPT ![field] = value]

\* recv() yields the oldest tuple and the chain of `if name ==` picks the
\* handler.
handler_dispatch(name) ==
    /\ Received
    /\ locking["handler"].todo = <<>>
    /\ Head(queue).name = "frame"
    /\ last' = Dispatch(Head(queue).from, name, <<>>, TRUE, {})
    /\ Enter("handler", HandlerLocks(name))
    /\ UNCHANGED <<local_address, peer_book, connections, sync_state,
                   sync_node, pending_hashes, latest_block_height, stream,
                   acceptor, readers, queue, ack, main, handled, handshakes,
                   requested>>

\* tx.send(channel) at the end of the loop body.
handler_acknowledge ==
    /\ At("handler", "acknowledge")
    /\ acknowledge(Head(queue))
    /\ Proceed("handler")
    /\ UNCHANGED <<local_address, peer_book, connections, sync_state,
                   sync_node, pending_hashes, latest_block_height, stream,
                   acceptor, readers, handshakes, last, requested>>

\* A `?` has returned the error, after the guards in scope were dropped.
handler_error ==
    /\ At("handler", "error")
    /\ propagate_error(Head(queue))
    /\ Proceed("handler")
    /\ UNCHANGED <<local_address, peer_book, connections, sync_state,
                   sync_node, pending_hashes, latest_block_height, stream,
                   acceptor, readers, handshakes, last, requested>>

\* Lines 225, 260 and 353: the sender is marked connected.
handler_update_connected ==
    /\ At("handler", "update_connected")
    /\ peer_book' = update_connected(peer_book, last.from)
    /\ Proceed("handler")
    /\ UNCHANGED <<local_address, connections, sync_state, sync_node,
                   pending_hashes, latest_block_height, stream, acceptor,
                   readers, queue, ack, main, handled, handshakes, last,
                   requested>>

\* receive_peers with the message's addresses, under the write guard of
\* the peer book.
peers_begin(addresses) ==
    /\ At("handler", "peers")
    /\ Note("payload", <<addresses>>)
    /\ Continue("handler",
                IF addresses = {} THEN receive_peers_end_locks
                ELSE receive_peers_loop_locks)
    /\ UNCHANGED <<local_address, peer_book, connections, sync_state,
                   sync_node, pending_hashes, latest_block_height, stream,
                   acceptor, readers, queue, ack, main, handled, handshakes,
                   requested>>

\* Lines 216 to 222 for one address of the message.
peers_address ==
    /\ At("handler", "address")
    /\ LET addresses == last.payload[1]
           addr == CHOOSE x \in addresses : TRUE
       IN
       /\ peer_book' = MergePeers(peer_book, {addr}, local_address)
       /\ Note("payload", <<addresses \ {addr}>>)
       /\ Continue("handler",
                   <<Drop("local_address")>> \o
                   (IF addresses = {addr} THEN receive_peers_end_locks
                    ELSE receive_peers_loop_locks))
    /\ UNCHANGED <<local_address, connections, sync_state, sync_node,
                   pending_hashes, latest_block_height, stream, acceptor,
                   readers, queue, ack, main, handled, handshakes,
                   requested>>

\* Pings::accept_pong answers under the write guard of the ping registry.
pong_accept(accepted) ==
    /\ At("handler", "accept_pong")
    /\ Note("accepted", accepted)
    /\ Continue("handler",
                IF accepted THEN receive_pong_ok_locks
                ELSE <<Drop("pings"), Do("acknowledge")>>)
    /\ UNCHANGED <<local_address, peer_book, connections, sync_state,
                   sync_node, pending_hashes, latest_block_height, stream,
                   acceptor, readers, queue, ack, main, handled, handshakes,
                   requested>>

\* Handshakes::accept_response answers under the write guard of the
\* handshake registry.
verack_accept(accepted) ==
    /\ At("handler", "accept_response")
    /\ Note("accepted", accepted)
    /\ handshakes' = IF accepted THEN handshakes \cup {last.from}
                     ELSE handshakes
    /\ Continue("handler",
                IF accepted THEN receive_verack_ok_locks
                ELSE <<Drop("handshakes"), Do("acknowledge")>>)
    /\ UNCHANGED <<local_address, peer_book, connections, sync_state,
                   sync_node, pending_hashes, latest_block_height, stream,
                   acceptor, readers, queue, ack, main, handled, requested>>

\* Line 356: GetPeers is written, still under the registry's write guard.
verack_getpeers(write_ok) ==
    /\ At("handler", "getpeers")
    /\ Note("written", IF write_ok THEN {<<last.from, "getpeers">>} ELSE {})
    /\ Continue("handler",
                <<Drop("handshakes"),
                  IF write_ok THEN Do("acknowledge") ELSE Do("error")>>)
    /\ UNCHANGED <<local_address, peer_book, connections, sync_state,
                   sync_node, pending_hashes, latest_block_height, stream,
                   acceptor, readers, queue, ack, main, handled, handshakes,
                   requested>>

\* The first operand of the condition of receive_version, under the read
\* guard of the peer book; peer_address and height are as for
\* receive_version.
version_cap(peer_address, height) ==
    /\ At("handler", "cap")
    /\ IpOf(peer_address) = IpOf(last.from)
    /\ IF \/ connected_total(peer_book) < max_peers
          \/ connected_contains(peer_book, peer_address)
       THEN /\ Continue("handler", receive_version_self_locks)
            /\ last' = [last EXCEPT !.payload = <<height, peer_address>>]
       ELSE /\ Continue("handler",
                        <<Drop("peer_book"), Do("acknowledge")>>)
            /\ last' = [last EXCEPT !.payload = <<height, peer_address>>,
                                    !.accepted = FALSE]
    /\ UNCHANGED <<local_address, peer_book, connections, sync_state,
                   sync_node, pending_hashes, latest_block_height, stream,
                   acceptor, readers, queue, ack, main, handled, handshakes,
                   requested>>

\* The second operand, under the read guard of the local address.
version_self ==
    /\ At("handler", "self")
    /\ IF local_address # last.payload[2]
       THEN /\ Continue("handler", receive_version_request_locks)
            /\ UNCHANGED last
       ELSE /\ Continue("handler",
                        <<Drop("local_address"), Drop("peer_book"),
                          Do("acknowledge")>>)
            /\ Note("accepted", FALSE)
    /\ UNCHANGED <<local_address, peer_book, connections, sync_state,
                   sync_node, pending_hashes, latest_block_height, stream,
                   acceptor, readers, queue, ack, main, handled, handshakes,
                   requested>>

\* Handshakes::receive_request answers, and line 391 compares the heights.
version_receive_request(ok) ==
    /\ At("handler", "receive_request")
    /\ Note("accepted", ok)
    /\ Continue("handler",
                <<Drop("handshakes")>> \o
                (IF ~ok THEN <<Drop("peer_book"), Do("error")>>
                 ELSE (IF has_longer_chain(last.payload[1],
                                           latest_block_height)
                       THEN adopt_locks ELSE <<>>)
                      \o <<Drop("peer_book"), Do("acknowledge")>>))
    /\ UNCHANGED <<local_address, peer_book, connections, sync_state,
                   sync_node, pending_hashes, latest_block_height, stream,
                   acceptor, readers, queue, ack, main, handled, handshakes,
                   requested>>

\* Lines 394 to 400, under the guard of the sync handler. outcome is as for
\* receive_version.
version_adopt(outcome) ==
    /\ At("handler", "adopt")
    /\ IF is_syncing
       THEN /\ outcome = "skip"
            /\ UNCHANGED <<sync_node, requested, last>>
            /\ Proceed("handler")
       ELSE /\ outcome \in {"no_locator", "sent", "write_err"}
            /\ sync_node' = {last.payload[2]}
            /\ requested' = IF outcome = "sent"
                            THEN requested \cup {<<last.from, "getsync", 0>>}
                            ELSE requested
            /\ Note("written", IF outcome = "sent"
                               THEN {<<last.from, "getsync">>} ELSE {})
            /\ Continue("handler",
                        IF outcome = "write_err"
                        THEN <<Drop("sync_handler"), Drop("peer_book"),
                               Do("error")>>
                        ELSE Tail(locking["handler"].todo))
    /\ UNCHANGED <<local_address, peer_book, connections, sync_state,
                   pending_hashes, latest_block_height, stream, acceptor,
                   readers, queue, ack, main, handled, handshakes>>

\* Line 309, under the guard of the sync handler.
sync_receive_hashes(hashes) ==
    /\ At("handler", "receive_hashes")
    /\ LET got == receive_hashes(sync_state, hashes, latest_block_height) IN
       /\ sync_state' = got[1]
       /\ pending_hashes' = got[2]
    /\ requested' = requested \ {<<last.from, "getsync", 0>>}
    /\ Note("payload", hashes)
    /\ Proceed("handler")
    /\ UNCHANGED <<local_address, peer_book, connections, sync_node,
                   latest_block_height, stream, acceptor, readers, queue,
                   ack, main, handled, handshakes>>

\* Lines 134 to 136 and 312 to 314, under the guard of the sync handler
\* and the read guard of the connection table.
handler_increment ==
    /\ At("handler", "increment")
    /\ IF sync_node # {} /\ sync_node \subseteq connections
       THEN LET next == increment(sync_state, pending_hashes)
                to == CHOOSE n \in sync_node : TRUE
            IN
            /\ sync_state' = next[1]
            /\ pending_hashes' = next[2]
            /\ requested' = requested \cup AsksFor(to, pending_hashes)
            /\ Note("written", GetBlockOf(to, pending_hashes))
       ELSE UNCHANGED <<sync_state, pending_hashes, requested, last>>
    /\ Proceed("handler")
    /\ UNCHANGED <<local_address, peer_book, connections, sync_node,
                   latest_block_height, stream, acceptor, readers, queue,
                   ack, main, handled, handshakes>>

\* Line 116 for the block of the message.
block_hash_exists_test(block) ==
    /\ At("handler", "block_hash_exists")
    /\ last' = [last EXCEPT !.payload = <<block>>, !.accepted = FALSE]
    /\ requested' = IF last.name = "block" THEN requested
                    ELSE requested \ {<<last.from, "getblock", block>>}
    /\ Continue("handler",
                IF block_hash_exists(latest_block_height, block)
                THEN <<Do("acknowledge")>> ELSE receive_block_locks)
    /\ UNCHANGED <<local_address, peer_book, connections, sync_state,
                   sync_node, pending_hashes, latest_block_height, stream,
                   acceptor, readers, queue, ack, main, handled, handshakes>>

\* Lines 118 to 121, under the guard of the memory pool.
block_receive_block(inserted) ==
    /\ At("handler", "receive_block")
    /\ inserted => last.payload[1] = latest_block_height + 1
    /\ latest_block_height' = IF inserted THEN latest_block_height + 1
                              ELSE latest_block_height
    /\ Note("accepted", inserted)
    /\ Proceed("handler")
    /\ UNCHANGED <<local_address, peer_book, connections, sync_state,
                   sync_node, pending_hashes, stream, acceptor, readers,
                   queue, ack, main, handled, handshakes, requested>>

\* Lines 125 to 131, under the guard of the sync handler.
block_clear_pending ==
    LET cleared == clear_pending(sync_state, pending_hashes,
                                 latest_block_height)
        propagate == last.name = "block"
    IN
    /\ At("handler", "clear_pending")
    /\ sync_state' = cleared[1]
    /\ pending_hashes' = cleared[2]
    /\ Note("written", IF last.accepted /\ propagate
                       THEN propagate_block(peer_book, last.payload[1],
                                            last.from)
                       ELSE {})
    /\ Continue("handler",
                IF ~(last.accepted /\ propagate)
                   /\ ~propagate /\ cleared[1] # "Idle"
                THEN receive_block_next_locks
                ELSE <<Drop("sync_handler"), Do("acknowledge")>>)
    /\ UNCHANGED <<local_address, peer_book, connections, sync_node,
                   latest_block_height, stream, acceptor, readers, queue,
                   ack, main, handled, handshakes, requested>>

\* The locks of the context: two peers connect, the first of them sends
\* peers, pong, verack and version frames, and the connection handler dials
\* out. No version is of a longer chain, so the sync handler stays out.
NextLocks ==
    \/ connect_bootnodes(<<>>)
    \/ \E t \in Tasks : acquire(t)
    \/ \E t \in Tasks : release(t)
    \/ \E a \in Remote : listen_accepted(a)
    \/ listen_cap
    \/ \E ok \in BOOLEAN : listen_receive_any(ok, <<>>)
    \/ \E r \in Reported \ {SyncPeer} : listen_discover(r)
    \/ listen_forget_peer
    \/ listen_store_channel
    \/ listen_version
    \/ listen_spawn
    \/ send_handshake_non_blocking
    \/ send_request
    \/ read_ok(SyncPeer)
    \/ forward(SyncPeer)
    \/ await_ack(SyncPeer)
    \/ \E name \in {"peers", "pong", "verack", "version"} :
          handler_dispatch(name)
    \/ handler_acknowledge
    \/ handler_error
    \/ handler_update_connected
    \/ \E addresses \in SUBSET {1, SyncPeer} : peers_begin(addresses)
    \/ peers_address
    \/ \E accepted \in BOOLEAN : pong_accept(accepted)
    \/ \E accepted \in BOOLEAN : verack_accept(accepted)
    \/ \E write_ok \in BOOLEAN : verack_getpeers(write_ok)
    \/ \E p \in Addr : version_cap(p, 0)
    \/ version_self
    \/ \E ok \in BOOLEAN : version_receive_request(ok)

SpecLocks == Init /\ [][NextLocks]_vars

\* The locks of the server: two peers connect, with or without a version
\* of a longer chain, and the first of them sends version, sync and
\* syncblock frames about the first block.
NextSyncLocks ==
    \/ connect_bootnodes(<<>>)
    \/ \E t \in Tasks : acquire(t)
    \/ \E t \in Tasks : try_lock(t)
    \/ \E t \in Tasks : release(t)
    \/ \E a \in Remote : listen_accepted(a)
    \/ listen_cap
    \/ \E ok \in BOOLEAN, version \in {<<>>, <<1>>} :
          listen_receive_any(ok, version)
    \/ listen_discover(local_address)
    \/ listen_store_channel
    \/ listen_version
    \/ \E sync \in {"skip", "sent", "write_err"} : listen_adopt(sync)
    \/ listen_spawn
    \/ read_ok(SyncPeer)
    \/ forward(SyncPeer)
    \/ await_ack(SyncPeer)
    \/ \E name \in {"version", "sync", "syncblock"} : handler_dispatch(name)
    \/ handler_acknowledge
    \/ handler_error
    \/ \E h \in {0, 1} : version_cap(SyncPeer, h)
    \/ version_self
    \/ \E ok \in BOOLEAN : version_receive_request(ok)
    \/ \E outcome \in {"skip", "sent", "write_err"} : version_adopt(outcome)
    \/ \E hashes \in {<<>>, <<1>>} : sync_receive_hashes(hashes)
    \/ handler_increment
    \/ block_hash_exists_test(1)
    \/ \E inserted \in BOOLEAN : block_receive_block(inserted)
    \/ block_clear_pending

SpecSyncLocks == Init /\ [][NextSyncLocks]_vars

----------------------------------------------------------------------------
(* Properties                                                              *)

\* The tuples of reader a that are in the queue.
Queued(a) == {i \in DOMAIN queue : queue[i].from = a}

\* A step in which the handler dispatches a tuple of reader a.
Dispatches(a) == handled'[a] # handled[a]

\* A step in which the read of reader a fails with PeerDisconnected.
ReadsPeerDisconnected(a) ==
    /\ readers[a].pc = "read"
    /\ readers'[a] # readers[a]
    /\ stream'[a] = "eof"

\* A step in which the acceptor takes a stream from a while at the peer cap.
AcceptsAtCap(a) ==
    /\ acceptor.pc = "accept"
    /\ connected_total(peer_book) >= max_peers
    /\ stream[a] = "none"
    /\ stream'[a] # "none"

\* C1: the connected set of the peer book never holds more than max_peers
\* addresses.
C1_ConnectedWithinCap == connected_total(peer_book) <= max_peers

\* C2: a connection accepted at the peer cap is half-shut (or the failed
\* shutdown ends the acceptor) and nothing else happens for it: no handshake
\* starts, the connection table, the readers and the peer book stay as they
\* are.
C2_AtCapOnlyShutdown ==
    [][\A a \in Addr : AcceptsAtCap(a) =>
          /\ \/ stream'[a] = "shutdown"
             \/ acceptor'.pc = "panicked"
          /\ acceptor'.pc # "handshake"
          /\ connections' = connections
          /\ readers' = readers
          /\ peer_book' = peer_book
          /\ queue' = queue]_vars

C2_Witness ==
    \E a \in Addr :
        /\ stream[a] = "shutdown"
        /\ a \notin connections
        /\ readers[a].pc = "none"
        /\ connected_total(peer_book) >= max_peers

\* C3: every reader has at most one tuple that is not acknowledged, and a
\* reader that is about to read or to forward has none.
C3_OneUnacknowledged ==
    \A a \in Addr :
        /\ Cardinality(Queued(a)) <= 1
        /\ ack[a] = "pending" <=> Queued(a) # {}
        /\ readers[a].pc \in {"read", "send", "done", "none"} =>
              /\ Queued(a) = {}
              /\ ack[a] = "none"

C3_Witness ==
    \E a \in Addr :
        /\ readers[a].pc = "wait"
        /\ readers[a].seq = 0
        /\ handled[a] = 1
        /\ ack[a] = "pending"
        /\ Queued(a) # {}

\* C4: the tuple of a reader the handler dispatches is the one that reader
\* read next after the last one dispatched, whatever the other readers do.
C4_PerPeerOrder ==
    [][\A a \in Addr : Dispatches(a) =>
          /\ queue # <<>>
          /\ Head(queue).from = a
          /\ Head(queue).seq = (handled[a] + 1) % SeqMod]_vars

C4_Witness ==
    \E a, b \in Addr :
        /\ a # b
        /\ handled[a] = 1
        /\ handled[b] = 1
        /\ Queued(a) # {}
        /\ Queued(b) # {}

\* C5: the handler loop and the acceptor loop never end.
C5_ServerKeepsRunning ==
    /\ main # "failed"
    /\ acceptor.pc # "panicked"

\* C6: the step that dispatches a tuple sends the channel back on the
\* tuple's one-shot sender.
C6_DispatchedIsAcknowledged ==
    [][\A a \in Addr : Dispatches(a) => ack'[a] = "sent"]_vars

\* C7: a reader has exited only after its peer was moved to the disconnected
\* set, and only with 10 or more failures counted.
C7_ExitedMeansDisconnected ==
    \A a \in Addr : readers[a].pc = "done" =>
        /\ a \in peer_book.disconnected
        /\ a \notin peer_book.connected
        /\ readers[a].failure_count >= FailureLimit

\* C8, as stated: a read that fails with PeerDisconnected makes the reader
\* forward a synthetic disconnect.
C8_PeerDisconnectedForwardsDisconnect ==
    [][\A a \in Addr : ReadsPeerDisconnected(a) =>
          /\ readers'[a].msg = "disconnect"
          /\ readers'[a].pc = "send"]_vars

\* C8, amended: a read that fails with PeerDisconnected counts as one more
\* failure of the reader; the reader forwards a synthetic disconnect when
\* that makes 10 failures and reads again otherwise.
C8_PeerDisconnectedCountsAsFailure ==
    [][\A a \in Addr : ReadsPeerDisconnected(a) =>
          /\ readers'[a].failure_count = readers[a].failure_count + 1
          /\ IF readers'[a].failure_count >= FailureLimit
             THEN /\ readers'[a].msg = "disconnect"
                  /\ readers'[a].pc = "send"
             ELSE /\ readers'[a].msg # "disconnect"
                  /\ readers'[a].pc = "read"]_vars

C8_Witness ==
    \E a \in Addr :
        /\ stream[a] = "eof"
        /\ readers[a].pc = "read"
        /\ readers[a].failure_count \in 1..(FailureLimit - 1)
        /\ ~readers[a].disconnect_from_peer

C10_LocalAddressAbsent ==
    local_address \notin
        peer_book.connected \cup peer_book.gossiped \cup peer_book.disconnected

\* A step in which the handler dispatches a frame of the given name that
\* reader a forwarded.
DispatchesNamed(a, name) ==
    /\ Dispatches(a)
    /\ last'.from = a
    /\ last'.name = name

\* C11: every address of the connected set has a stored channel and a
\* completed handshake, a verack from it having been accepted.
C11_ConnectedAreHandshaken ==
    peer_book.connected \subseteq (handshakes \cap connections)

\* C12: a verack the registry accepts marks its sender connected and has
\* GetPeers written to it (unless that write fails); a verack the registry
\* rejects leaves the peer book as it is, writes nothing, and is
\* acknowledged by a handler that goes on.
C12_VerackAdmitsOnlyIfAccepted ==
    [][\A a \in Addr : DispatchesNamed(a, "verack") =>
          IF last'.accepted
          THEN /\ a \in peer_book'.connected
               /\ \/ last'.written = {<<a, "getpeers">>}
                  \/ main' = "failed"
          ELSE /\ peer_book' = peer_book
               /\ last'.written = {}
               /\ ack'[a] = "sent"
               /\ main' = "handler"]_vars

C12_Witness ==
    /\ last.name = "verack"
    /\ ~last.accepted
    /\ last.from \notin peer_book.connected
    /\ ack[last.from] = "sent"
    /\ \E b \in Addr : b # last.from /\ b \in peer_book.connected

\* C18: the step that dispatches the synthetic disconnect of a peer leaves
\* the peer in the disconnected set, out of the connected set and out of
\* the connection table.
C18_DisconnectClosesChannel ==
    [][\A a \in Addr : DispatchesNamed(a, "disconnect") =>
          /\ a \in peer_book'.disconnected
          /\ a \notin peer_book'.connected
          /\ a \notin connections']_vars

\* C20: local_address is overwritten at most once: it changes only while
\* it still is the configured address.
C20_LocalAddressWrittenOnce ==
    [][local_address' # local_address => local_address = 1]_vars

\* C19: a step of a reader adds at most 1 to failure_count and never
\* lowers it; it adds 1 only at a failure (of the read, of the send to the
\* handler, of the await of the acknowledgement), and not when an earlier
\* failure of the same iteration was already counted.
C19_OneCountPerIteration ==
    [][\A a \in Addr :
          LET r == readers[a]
              n == readers'[a].failure_count
          IN  /\ n \in {r.failure_count, r.failure_count + 1}
              /\ (r.pc \in {"send", "wait"} /\ r.failure) =>
                    n = r.failure_count
              /\ (r.pc = "send" /\ n = r.failure_count + 1) =>
                    readers'[a].failure
              /\ n = r.failure_count + 1 =>
                    \/ r.pc = "read" /\ readers'[a].msg # "frame"
                    \/ r.pc = "send" /\ main = "failed"
                    \/ r.pc = "wait" /\ ack[a] = "dropped"]_vars

C19_Witness ==
    \E a \in Addr :
        /\ readers[a].pc = "wait"
        /\ readers[a].failure
        /\ readers[a].failure_count \in 2..(FailureLimit - 1)
        /\ ack[a] = "dropped"
        /\ main = "failed"

\* The acceptor finishes the handshake of the connection it accepted.
CompletesHandshake == acceptor.pc = "handshake" /\ acceptor'.pc = "accept"

\* C13: sync_node is reassigned and GetSync is sent only in a step in which
\* the peer's advertised height is strictly greater than the local height
\* and the sync handler is idle, in the acceptor's handshake as in the
\* handling of a version frame; while the handler is syncing sync_node
\* never changes, and a peer of the same height starts no sync.
C13_SyncOnlyWithLongerChain ==
    [][/\ sync_node' # sync_node => sync_state = "Idle"
       /\ (CompletesHandshake /\ (sync_node' # sync_node \/ acceptor'.getsync))
            => /\ acceptor'.version # <<>>
               /\ acceptor'.version[1] > latest_block_height
               /\ sync_state = "Idle"
       /\ \A a \in Addr :
            (/\ DispatchesNamed(a, "version")
             /\ \/ sync_node' # sync_node
                \/ <<a, "getsync">> \in last'.written)
            => /\ last'.payload[1] > latest_block_height
               /\ sync_state = "Idle"]_vars

\* A version frame advertising a longer chain was handled while the node
\* was syncing with the peer it adopted before.
C13_Witness ==
    /\ is_syncing
    /\ sync_node = {SyncPeer}
    /\ pending_hashes # <<>>
    /\ last.name = "version"
    /\ last.payload[1] > latest_block_height
    /\ last.written = {}

FannedOutTo == {w[1] : w \in {x \in last'.written : x[2][1] = "block"}}

\* C14: a block received from peer a is fanned out only if storage lacked
\* it and consensus inserted it, and then to every connected peer except a;
\* a syncblock is never fanned out.
C14_FanOutOnlyOfNewBlocks ==
    [][\A a \in Addr :
        /\ DispatchesNamed(a, "block") =>
             /\ FannedOutTo # {} =>
                  /\ ~block_hash_exists(latest_block_height,
                                        last'.payload[1])
                  /\ block_hash_exists(latest_block_height',
                                       last'.payload[1])
                  /\ last'.accepted
             /\ a \notin FannedOutTo
             /\ FannedOutTo \subseteq peer_book.connected
             /\ (/\ ~block_hash_exists(latest_block_height,
                                       last'.payload[1])
                 /\ last'.accepted)
                => FannedOutTo = peer_book.connected \ {a}
        /\ DispatchesNamed(a, "syncblock") => FannedOutTo = {}]_vars

\* A connected peer's new block went to another connected peer.
C14_Witness ==
    /\ last.name = "block"
    /\ last.accepted
    /\ last.from \in peer_book.connected
    /\ \E q \in peer_book.connected :
          q # last.from /\ <<q, <<"block", last.payload[1]>>>> \in last.written

Min(x, y) == IF x <= y THEN x ELSE y

\* The hash lists of the Sync messages the step wrote to address a.
SyncsTo(a) ==
    {w[2][2] : w \in {x \in last'.written : x[1] = a /\ x[2][1] = "sync"}}

\* C15: a getsync whose latest shared hash is at height h, answered at local
\* height H, gets exactly one Sync: the hashes of heights
\* h+1 .. min(H, h+4000) in ascending order if h < H, the empty list if
\* h >= H or the height is unknown; never more than 4000 hashes, and
\* exactly 4000 when H - h > 4000.
C15_SyncReplyIsCapped ==
    [][\A a \in Addr : DispatchesNamed(a, "getsync") =>
        LET h == last'.payload[1]
            H == latest_block_height
            known == last'.accepted
        IN  /\ Cardinality(last'.written) = 1
            /\ SyncsTo(a) =
                 {IF known /\ h < H
                  THEN [i \in 1..(Min(H, h + 4000) - h) |-> h + i]
                  ELSE <<>>}
            /\ \A hashes \in SyncsTo(a) :
                 /\ Len(hashes) <= 4000
                 /\ (known /\ H - h > 4000) => Len(hashes) = 4000]_vars

\* A requester more than the limit behind got a Sync of exactly the limit.
C15_Witness ==
    /\ last.name = "getsync"
    /\ last.accepted
    /\ latest_block_height - last.payload[1] > SyncCap
    /\ \E w \in last.written : w[2][1] = "sync" /\ Len(w[2][2]) = SyncCap

\* The height the sync peer advertised in the handshake, 0 before it.
Advertised == IF acceptor.version = <<>> THEN 0 ELSE acceptor.version[1]

\* The hashes asked for with GetBlock and not yet answered.
Outstanding == {q[3] : q \in {x \in requested : x[2] = "getblock"}}

C22_KnownBlockChangesNothing ==
    [][\A a \in Addr :
        (/\ DispatchesNamed(a, "block") \/ DispatchesNamed(a, "syncblock")
         /\ block_hash_exists(latest_block_height, last'.payload[1]))
        => /\ UNCHANGED <<latest_block_height, sync_state, pending_hashes,
                          sync_node, peer_book, connections>>
           /\ last'.written = {}
           /\ requested' \subseteq requested
           /\ ack'[a] = "sent"
           /\ main' = "handler"]_vars

\* A syncblock of a stored block was handled while the node was syncing
\* with hashes still pending, and no GetBlock went out.
C22_Witness ==
    /\ last.name = "syncblock"
    /\ block_hash_exists(latest_block_height, last.payload[1])
    /\ ~last.accepted
    /\ is_syncing
    /\ pending_hashes # <<>>
    /\ sync_node = {SyncPeer}
    /\ sync_node \subseteq connections
    /\ last.written = {}

\* The step wrote a message of the given name to some channel.
Writes(name) == \E w \in last'.written : w[2][1] = name

\* C23: a syncblock of a block storage lacks makes the handler ask for the
\* next pending block exactly when the sync handler is still syncing after
\* clear_pending, whether or not consensus took the block, and is never
\* propagated; a block message never makes it ask for a block.
C23_SyncBlockAsksForNext ==
    [][\A a \in Addr :
        /\ (/\ DispatchesNamed(a, "syncblock")
            /\ ~block_hash_exists(latest_block_height, last'.payload[1]))
           => /\ Writes("getblock")
                 <=> clear_pending(sync_state, pending_hashes,
                                   latest_block_height')[1] = "Syncing"
              /\ ~Writes("block")
        /\ DispatchesNamed(a, "block") => ~Writes("getblock")]_vars

\* C28: the sync handler takes pending hashes only from a Sync of the
\* current sync node: a Sync from any other peer changes neither the sync
\* state nor the pending hashes, and the GetBlock for a hash goes to the
\* peer that supplied it.
C28_SyncOnlyFromSyncNode ==
    [][\A a \in Addr : DispatchesNamed(a, "sync") =>
        /\ sync_node # {a} => UNCHANGED <<sync_state, pending_hashes>>
        /\ \A w \in last'.written : w[2][1] = "getblock" => w[1] = a]_vars

\* C26: after a version message of a peer with channel address a, the
\* channel handed back to the reader through the acknowledgement has the
\* address (ip, message.address_sender.port), the one given to the
\* handshake registry and taken as sync_node.
C26_VersionUpdatesChannel ==
    [][\A a \in Addr : DispatchesNamed(a, "version") =>
        LET peer_address == last'.payload[2]
        IN  /\ IpOf(peer_address) = IpOf(a)
            /\ ack'[a] = "sent" =>
                 version_channel(a, peer_address) = peer_address
            /\ sync_node' # sync_node => sync_node' = {peer_address}]_vars

\* C25: no task that holds the write guard of the peer book, of the
\* connection table, of the handshake registry or of the ping registry
\* waits for a different lock while it holds the guard.
C25_NoWaitUnderWrite ==
    \A t \in Tasks :
        \A l \in {"peer_book", "connections", "handshakes", "pings"} :
            <<l, "write">> \in locking[t].held
            => ~(Waiting(t) /\ Head(locking[t].todo)[2] # l)

\* C27: the acceptor, the handler and the outbound-handshake task never
\* wait for each other's locks in a cycle, self-discovery in the acceptor
\* during a peers or version message in the handler included.
C27_NoWaitCycle ==
    /\ \A t, u \in Tasks : ~(WaitsFor(t, u) /\ WaitsFor(u, t))
    /\ \A t, u, v \in Tasks :
          ~(WaitsFor(t, u) /\ WaitsFor(u, v) /\ WaitsFor(v, t))

\* The order in which the specification has the four locks taken.
LockOrder == <<"mempool", "sync_handler", "peer_book", "connections">>

Rank(l) == CHOOSE i \in 1..Len(LockOrder) : LockOrder[i] = l

InOrder(g) == \E i \in 1..Len(LockOrder) : LockOrder[i] = g[1]

\* Every guard of the four locks that task t gets in this step is of a
\* lock later in the order than each of the four it holds already.
TakesInOrder(t) ==
    \A g \in locking'[t].held \ locking[t].held :
        InOrder(g) =>
            \A h \in locking[t].held : InOrder(h) => Rank(h[1]) < Rank(g[1])

\* C24 (as stated): a task that holds more than one of mempool,
\* sync_handler, peer_book and connections took them in this order: no
\* task gets a guard of an earlier lock while it holds one of a later lock.
C24_LockOrder == [][\A t \in Tasks : TakesInOrder(t)]_vars

\* C24 (amended): the order holds for every acquisition that waits for its
\* lock (read, write and lock); the one guard taken out of order is that of
\* the sync handler in receive_version, taken with try_lock under the read
\* guard of the peer book.
C24_WaitingLockOrder ==
    [][\A t \in Tasks :
        \/ TakesInOrder(t)
        \/ /\ t = "handler"
           /\ Head(locking[t].todo) = Head(adopt_locks)
           /\ locking'[t].held =
                locking[t].held \cup {<<"sync_handler", "lock">>}
           /\ {h \in locking[t].held : InOrder(h)}
                = {<<"peer_book", "read">>}]_vars

C24_Witness ==
    /\ <<"sync_handler", "lock">> \in locking["handler"].held
    /\ <<"connections", "read">> \in locking["handler"].held
    /\ last.name = "syncblock"

\* Task t is where a version of a longer chain leads to the sync handler.
InVersionPath(t) == t = "acceptor" \/ (t = "handler" /\ last.name = "version")

\* C21: where a version leads to the sync handler, in the acceptor and in
\* receive_version, the task never waits for the sync handler's lock; when
\* another task holds the lock the step leaves sync_node as it is and
\* writes no GetSync, has nothing left to wait for, and ends with the
\* channel stored and its reader spawned (acceptor) or with the message
\* acknowledged (handler).
C21_BusySyncHandlerIsSkipped ==
    [][\A t \in {"acceptor", "handler"} :
        /\ InVersionPath(t) =>
              ~(Acquiring(t) /\ Head(locking[t].todo)[2] = "sync_handler")
        /\ (locking'[t] # locking[t] /\ locking'[t].tried = "busy") =>
              /\ UNCHANGED <<sync_node, requested>>
              /\ last'.written = last.written
              /\ acceptor'.getsync = acceptor.getsync
              /\ \A i \in 1..Len(locking'[t].todo) :
                    locking'[t].todo[i][1] \in {"drop", "do"}
              /\ (t = "acceptor" /\ locking'[t].todo = <<>>) =>
                    /\ acceptor.peer \in connections
                    /\ readers[acceptor.peer].pc # "none"
                    /\ locking'[t].held = {}
              /\ (t = "handler" /\ locking'[t].todo = <<>>) =>
                    /\ ack'[last.from] = "sent"
                    /\ main' = "handler"
                    /\ locking'[t].held = {}]_vars

C21_Witness ==
    /\ locking["acceptor"].tried = "busy"
    /\ locking["acceptor"].todo = <<>>
    /\ Holds("handler", "sync_handler")
    /\ acceptor.version # <<>>
    /\ acceptor.peer \in connections
    /\ readers[acceptor.peer].pc = "read"
    /\ sync_node # {acceptor.peer}
    /\ ~acceptor.getsync

====
